---- MODULE Spec2Model ----
(***************************************************************************)
(* ai_commit: one command-line invocation after another, each either a     *)
(* `config` sub-command (lib.rs handle_config_command) or a generation     *)
(* (lib.rs run_generate, ai_commit.rs generate_commit_message), all        *)
(* sharing the persisted config file (config.rs).  main.rs holds the same  *)
(* code once more, with main and with an Ok arm that edits and commits     *)
(* the message instead of printing it; both Ok arms are actions here.      *)
(*                                                                         *)
(* Strings are TLA+ strings.  Option<T> is a sequence of length <= 1:      *)
(* None is <<>>, Some(x) is <<x>>.  A formatted string (format!, println!) *)
(* is the record of its template and its arguments, Fmt(template, args).   *)
(* The backquote of the source's texts is written ' (a TLA+ string cannot  *)
(* hold one).                                                              *)
(* External commands and file I/O are taken to succeed: the expect()       *)
(* panics of config.rs and get_git_diff are outside the model.             *)
(***************************************************************************)
EXTENDS Naturals, Sequences, FiniteSets, TLC

VARIABLES
    file,       \* the config file: None (no file) or Some(TOML document)
    pc,         \* position of the current invocation
    cli,        \* the parsed command line (Cli)
    config,     \* the Config loaded at startup, as handled in memory
    staged,     \* the working tree's staged diff text (environment)
    params,     \* run_generate's locals api_key, language, prompt, url, model
    diff,       \* run_generate's local diff
    requests,   \* the POST requests this invocation has sent, in order
    status,     \* generate_commit_message's local status
    body,       \* generate_commit_message's local body
    result,     \* what generate_commit_message returned
    stdout,     \* lines printed to the output stream by this invocation
    stderr,     \* lines printed to the error stream by this invocation
    committed,  \* the message handed to `git commit -m` (main.rs sink)
    exitCode,   \* the process exit status, once the invocation has ended
    other       \* a second, concurrent process: its position, command, Config

vars == <<file, pc, cli, config, staged, params, diff, requests, status, body,
          result, stdout, stderr, committed, exitCode, other>>

\* ------------------------------------------------------------------ bounds

\* The longest `choices` list an endpoint answers with.
MaxChoices == 2

\* ------------------------------------------------------------ Option, text

None == <<>>
Some(x) == <<x>>

\* A slip that lets the second operand win.
Or_Swapped(a, b) == IF b # None THEN b ELSE a

\* Option::or
Or(a, b) == IF a # None THEN a ELSE b

\* Option::unwrap_or_else / unwrap_or_default
UnwrapOr(a, d) == IF a # None THEN a[1] ELSE d

Fmt(template, args) == [fmt |-> template, args |-> args]

RECURSIVE SeqsUpTo(_, _)
SeqsUpTo(S, n) ==
    IF n = 0 THEN {<<>>}
    ELSE LET shorter == SeqsUpTo(S, n - 1)
         IN  shorter \cup {Append(s, x) : s \in {t \in shorter : Len(t) = n - 1}, x \in S}

\* ------------------------------------------------------------------ inputs

Fields == {"api_key", "url", "model", "language", "prompt"}

\* Values the user stores with `config set-*`.  The empty key is what
\* `config set-api-key ""` stores.
StoredValues ==
    [api_key  |-> {"", "sk-A", "sk-B"},
     url      |-> {"http://stored.example/v1"},
     model    |-> {"stored-model"},
     language |-> {"zh"},
     prompt   |-> {"Use conventional commits."}]

\* Values the user passes as top-level flags; they differ from the stored
\* ones and from the defaults, so that the source of a resolved value shows.
CliLanguages == {"fr"}
CliPrompts   == {"Be brief."}
CliUrls      == {"http://cli.example/v1"}
CliModels    == {"cli-model"}

Opt(S) == {None} \cup {Some(x) : x \in S}

Diffs == {"", "diff --git a/x b/x"}

\* ------------------------------------------------------------- config.rs

\* Config::default()
DefaultConfig == [f \in Fields |-> None]

\* toml::to_string_pretty(&config): a None field is left out of the document.
to_toml(c) == [f \in {g \in Fields : c[g] # None} |-> c[f][1]]

\* toml::from_str(&config_str): a key the document lacks is None.
from_toml(doc) == [f \in Fields |-> IF f \in DOMAIN doc THEN Some(doc[f]) ELSE None]

\* The file save_config leaves behind.
save_config(c) == Some(to_toml(c))

\* load_config(): the default when there is no file.
load_config(f) == IF f = None THEN DefaultConfig ELSE from_toml(f[1])

\* ------------------------------------------------------------------ cli.rs

\* Cli: the four optional overrides and the optional sub-command.  There is
\* no api_key flag; the hidden msg and gen_completion flags of lib's Cli are
\* read by no code and are left out.
GenerateClis ==
    [url : Opt(CliUrls), model : Opt(CliModels), language : Opt(CliLanguages),
     prompt : Opt(CliPrompts), command : {None}]

\* ConfigCmd
SetCmds ==
    UNION {{[cmd |-> "set", field |-> f, value |-> v] : v \in StoredValues[f]} : f \in Fields}

ShowCmd == [cmd |-> "show", field |-> "", value |-> ""]

ConfigCli(c) ==
    [url |-> None, model |-> None, language |-> None, prompt |-> None,
     command |-> Some(c)]

\* -------------------------------------------------------------------- Init

Init ==
    /\ file = None
    /\ pc = "idle"
    /\ cli = ConfigCli(ShowCmd)
    /\ config = DefaultConfig
    /\ staged = ""
    /\ params = None
    /\ diff = None
    /\ requests = <<>>
    /\ status = None
    /\ body = None
    /\ result = None
    /\ stdout = <<>>
    /\ stderr = <<>>
    /\ committed = None
    /\ exitCode = None
    /\ other = [pc |-> "idle", config |-> DefaultConfig, command |-> ShowCmd]

\* ------------------------------------------------------------------- main

\* main: Cli::parse(), load_config(), then the dispatch on cli.command.  A
\* new process starts with empty streams and no locals.
Main(c, d) ==
    /\ pc \in {"idle", "done"}
    /\ cli' = c
    /\ config' = load_config(file)
    /\ staged' = d
    /\ pc' = IF c.command = None THEN "generate" ELSE "config"
    /\ params' = None
    /\ diff' = None
    /\ requests' = <<>>
    /\ status' = None
    /\ body' = None
    /\ result' = None
    /\ stdout' = <<>>
    /\ stderr' = <<>>
    /\ committed' = None
    /\ exitCode' = None
    /\ UNCHANGED <<file, other>>

\* The process ends: main returns, whatever happened.
Exit(out, err) ==
    /\ pc' = "done"
    /\ stdout' = stdout \o out
    /\ stderr' = stderr \o err
    /\ exitCode' = Some(0)

\* --------------------------------------------------- handle_config_command

SetMessage(f, c) ==
    CASE f = "api_key"  -> Fmt("API key set successfully.", <<>>)
      [] f = "url"      -> Fmt("API URL set to: {}", <<c.url[1]>>)
      [] f = "model"    -> Fmt("Default model set to: {}", <<c.model[1]>>)
      [] f = "language" -> Fmt("Default language set to: {}", <<c.language[1]>>)
      [] f = "prompt"   -> Fmt("Default prompt set.", <<>>)

\* A slip that starts from an empty record instead of the loaded one.
SetField_FromDefault(c, f, v) == [[g \in DOMAIN c |-> None] EXCEPT ![f] = Some(v)]

\* config.<field> = Some(value)
SetField(c, f, v) == [c EXCEPT ![f] = Some(v)]

\* The five Set* arms: assign the field, save the whole record, report.
ConfigSet ==
    /\ pc = "config"
    /\ cli.command[1].cmd = "set"
    /\ LET f == cli.command[1].field
           c == SetField(config, f, cli.command[1].value)
       IN  /\ config' = c
           /\ file' = save_config(c)
           /\ Exit(<<SetMessage(f, c)>>, <<>>)
    /\ UNCHANGED <<other, cli, staged, params, diff, requests, status, body, result, committed>>

ConfigPath == "<config_dir>/config.toml"

ShowField(c, f) ==
    IF c[f] # None THEN <<Fmt(f \o " = \"{}\"", <<c[f][1]>>)>> ELSE <<>>

\* A slip that prints the key like the other fields.
ShowLines_PrintsKey(c) ==
    <<Fmt("Current configuration file path: {}", <<ConfigPath>>),
      Fmt("---", <<>>)>>
    \o ShowField(c, "api_key") \o ShowField(c, "url") \o ShowField(c, "model")
    \o ShowField(c, "language") \o ShowField(c, "prompt")
    \o <<Fmt("---", <<>>)>>

\* The Show arm's output.
ShowLines(c) ==
    <<Fmt("Current configuration file path: {}", <<ConfigPath>>),
      Fmt("---", <<>>),
      IF c.api_key # None THEN Fmt("api_key = [set]", <<>>)
                          ELSE Fmt("api_key = [not set]", <<>>)>>
    \o ShowField(c, "url") \o ShowField(c, "model")
    \o ShowField(c, "language") \o ShowField(c, "prompt")
    \o <<Fmt("---", <<>>)>>

ConfigShow ==
    /\ pc = "config"
    /\ cli.command[1].cmd = "show"
    /\ Exit(ShowLines(config), <<>>)
    /\ UNCHANGED <<other, file, cli, config, staged, params, diff, requests, status, body,
                   result, committed>>

\* ------------------------------------------------- response bodies (JSON)

\* A response body is its text as serde_json reads it: a JSON value (string,
\* array, or object, the object a function from its keys) or text that is
\* no JSON at all.
JString(s) == [t |-> "string", v |-> s]
JArray(a) == [t |-> "array", v |-> a]
JObject(o) == [t |-> "object", v |-> o]
NotJson == [t |-> "text", v |-> "not json"]

\* {"error":"invalid key"}
ErrorBody == JObject([error |-> JString("invalid key")])

\* {"choices":[{"text":"fix"}]}: a choice without a message
NoMessageBody == JObject([choices |-> JArray(<<JObject([text |-> JString("fix")])>>)])

\* The contents a model answers with; the second has surrounding white space
\* and markdown fences.
Contents == {"fix: correct off-by-one", " '''feat: add x'''\n"}

\* {"choices":[{"message":{"role":"assistant","content":c}}, ...]}
ChatBody(cs) ==
    JObject([choices |-> JArray([i \in 1..Len(cs) |->
        JObject([message |-> JObject([role |-> JString("assistant"),
                                      content |-> JString(cs[i])])])])])

Statuses == {200, 204, 401, 500}

SendErrors == {"error sending request: connection refused", "error sending request: dns error"}

ReadErrors == {"error decoding response body"}

\* Result<String, String>
Ok(v) == [ok |-> TRUE, val |-> v]
Err(e) == [ok |-> FALSE, val |-> e]

\* str::trim on the strings of the model
Trim(s) ==
    CASE s = " '''feat: add x'''\n" -> "'''feat: add x'''"
      [] OTHER -> s

\* ------------------------------------------------------------ ai_commit.rs

\* Deserialize for Message: an object with string fields role and content.
IsMessage(j) ==
    /\ j.t = "object"
    /\ {"role", "content"} \subseteq DOMAIN j.v
    /\ j.v.role.t = "string"
    /\ j.v.content.t = "string"

\* Deserialize for Choice: an object with a message field.
IsChoice(j) ==
    /\ j.t = "object"
    /\ "message" \in DOMAIN j.v
    /\ IsMessage(j.v.message)

\* serde_json::from_str::<OpenAiResponse>(&body): the parsed response, or the
\* parser's error.
from_str(b) ==
    IF b.t = "text" THEN Err("expected ident at line 1 column 2")
    ELSE IF b.t # "object" THEN Err("invalid type, expected struct OpenAiResponse")
    ELSE IF "choices" \notin DOMAIN b.v THEN Err("missing field 'choices'")
    ELSE IF b.v.choices.t # "array" THEN Err("invalid type, expected a sequence")
    ELSE IF \E i \in 1..Len(b.v.choices.v) : ~IsChoice(b.v.choices.v[i])
         THEN Err("missing field 'message'")
    ELSE Ok([choices |-> [i \in 1..Len(b.v.choices.v) |->
                [message |-> [role    |-> b.v.choices.v[i].v.message.v.role.v,
                              content |-> b.v.choices.v[i].v.message.v.content.v]]]])

\* StatusCode::is_success
is_success(s) == s >= 200 /\ s <= 299

\* The system and user messages and the request that carries them.
BuildRequest(d, api_key, language, prompt, url, model) ==
    [url    |-> url,
     bearer |-> api_key,
     json   |-> [model |-> model,
                 messages |-> <<
                    [role |-> "system",
                     content |-> Fmt("You are a helpful assistant that generates commit messages in {}. The user will provide a git diff, and you should generate a concise and informative commit message. {}",
                                     <<language, prompt>>)],
                    [role |-> "user",
                     content |-> Fmt("Here is the git diff:\n'''\n{}\n'''", <<d>>)]>>]]

\* A slip that trims the returned content.
HandleResponse_Trims(s, b) ==
    IF is_success(s)
    THEN LET parsed == from_str(b)
         IN  IF parsed.ok
             THEN IF Len(parsed.val.choices) = 0
                  THEN Err(Fmt("API response is empty.", <<>>))
                  ELSE Ok(Trim(parsed.val.choices[1].message.content))
             ELSE Err(Fmt("Failed to parse JSON response: {}. \nRaw response: {}",
                          <<parsed.val, b>>))
    ELSE Err(Fmt("API request failed with status {}. \nResponse: {}", <<s, b>>))

\* A slip that parses the body before it looks at the status.
HandleResponse_ParsesFirst(s, b) ==
    LET parsed == from_str(b)
    IN  IF parsed.ok
        THEN IF Len(parsed.val.choices) = 0
             THEN Err(Fmt("API response is empty.", <<>>))
             ELSE Ok(parsed.val.choices[1].message.content)
        ELSE IF is_success(s)
        THEN Err(Fmt("Failed to parse JSON response: {}. \nRaw response: {}",
                     <<parsed.val, b>>))
        ELSE Err(Fmt("API request failed with status {}. \nResponse: {}", <<s, b>>))

\* What generate_commit_message returns once it holds the status and the body.
HandleResponse(s, b) ==
    IF is_success(s)
    THEN LET parsed == from_str(b)
         IN  IF parsed.ok
             THEN IF Len(parsed.val.choices) = 0
                  THEN Err(Fmt("API response is empty.", <<>>))
                  ELSE Ok(parsed.val.choices[1].message.content)
             ELSE Err(Fmt("Failed to parse JSON response: {}. \nRaw response: {}",
                          <<parsed.val, b>>))
    ELSE Err(Fmt("API request failed with status {}. \nResponse: {}", <<s, b>>))

\* ------------------------------------------------------------ run_generate

\* The two lines run_generate prints when it stops early.
ApiKeyNotSet ==
    Fmt("API key not set. Please run 'ai_commit config set-api-key <YOUR_KEY>'", <<>>)

NoStagedChangesLine == Fmt("No staged changes to commit.", <<>>)

\* A slip that also treats a stored empty key as missing.
MissingApiKey_EmptyToo ==
    /\ pc = "generate"
    /\ (config.api_key = None \/ config.api_key = Some(""))
    /\ Exit(<<>>, <<ApiKeyNotSet>>)
    /\ UNCHANGED <<other, file, cli, config, staged, params, diff, requests, status, body,
                   result, committed>>

\* The None arm of `match config.api_key`.
MissingApiKey ==
    /\ pc = "generate"
    /\ config.api_key = None
    /\ Exit(<<>>, <<ApiKeyNotSet>>)
    /\ UNCHANGED <<other, file, cli, config, staged, params, diff, requests, status, body,
                   result, committed>>

\* The five locals run_generate resolves from the overrides and the config.
Resolved(args, c) ==
    [api_key  |-> c.api_key[1],
     language |-> UnwrapOr(Or(args.language, c.language), "en"),
     prompt   |-> UnwrapOr(Or(args.prompt, c.prompt), ""),
     url      |-> UnwrapOr(Or(args.url, c.url), "https://api.openai.com/v1/chat/completions"),
     model    |-> UnwrapOr(Or(args.model, c.model), "gpt-3.5-turbo")]

ResolveOptions ==
    /\ pc = "generate"
    /\ config.api_key # None
    /\ params' = Some(Resolved(cli, config))
    /\ pc' = "diff"
    /\ UNCHANGED <<other, file, cli, config, staged, diff, requests, status, body, result,
                   stdout, stderr, committed, exitCode>>

\* get_git_diff(): the output of `git diff --staged`.
GetGitDiff ==
    /\ pc = "diff"
    /\ diff' = Some(staged)
    /\ pc' = "diffed"
    /\ UNCHANGED <<other, file, cli, config, staged, params, requests, status, body, result,
                   stdout, stderr, committed, exitCode>>

\* diff.is_empty()
NoStagedChanges ==
    /\ pc = "diffed"
    /\ diff[1] = ""
    /\ Exit(<<NoStagedChangesLine>>, <<>>)
    /\ UNCHANGED <<other, file, cli, config, staged, params, diff, requests, status, body,
                   result, committed>>

\* A slip that posts without looking at the diff.
SendRequest_AnyDiff ==
    /\ pc = "diffed"
    /\ requests' = Append(requests,
            BuildRequest(diff[1], params[1].api_key, params[1].language,
                         params[1].prompt, params[1].url, params[1].model))
    /\ pc' = "sent"
    /\ UNCHANGED <<other, file, cli, config, staged, params, diff, status, body, result,
                   stdout, stderr, committed, exitCode>>

\* generate_commit_message up to send(): the request is built and posted.
SendRequest ==
    /\ pc = "diffed"
    /\ diff[1] # ""
    /\ requests' = Append(requests,
            BuildRequest(diff[1], params[1].api_key, params[1].language,
                         params[1].prompt, params[1].url, params[1].model))
    /\ pc' = "sent"
    /\ UNCHANGED <<other, file, cli, config, staged, params, diff, status, body, result,
                   stdout, stderr, committed, exitCode>>

\* send() fails: map_err and `?`.
SendFails(e) ==
    /\ pc = "sent"
    /\ result' = Some(Err(Fmt("Failed to send request: {}", <<e>>)))
    /\ pc' = "returned"
    /\ UNCHANGED <<other, file, cli, config, staged, params, diff, requests, status, body,
                   stdout, stderr, committed, exitCode>>

\* send() answers: res.status().
ResponseArrives(s) ==
    /\ pc = "sent"
    /\ status' = Some(s)
    /\ pc' = "reading"
    /\ UNCHANGED <<other, file, cli, config, staged, params, diff, requests, body, result,
                   stdout, stderr, committed, exitCode>>

\* res.text() fails: map_err and `?`.
ReadBodyFails(e) ==
    /\ pc = "reading"
    /\ result' = Some(Err(Fmt("Failed to read response body: {}", <<e>>)))
    /\ pc' = "returned"
    /\ UNCHANGED <<other, file, cli, config, staged, params, diff, requests, status, body,
                   stdout, stderr, committed, exitCode>>

\* res.text() gives the body, and the function returns on it.
ReadBody(b) ==
    /\ pc = "reading"
    /\ body' = Some(b)
    /\ result' = Some(HandleResponse(status[1], b))
    /\ pc' = "returned"
    /\ UNCHANGED <<other, file, cli, config, staged, params, diff, requests, status,
                   stdout, stderr, committed, exitCode>>

\* The Ok arm of lib.rs: the message is printed.
PrintMessage ==
    /\ pc = "returned"
    /\ result[1].ok
    /\ Exit(<<Fmt("{}", <<result[1].val>>)>>, <<>>)
    /\ UNCHANGED <<other, file, cli, config, staged, params, diff, requests, status, body,
                   result, committed>>

\* The Ok arm of main.rs: the message goes through the editor and, unless it
\* comes back blank, into `git commit -m`.
EditAndCommit ==
    /\ pc = "returned"
    /\ result[1].ok
    /\ \E final_message \in {result[1].val, ""} :
         IF Trim(final_message) # ""
         THEN /\ committed' = Some(final_message)
              /\ Exit(<<Fmt("Commit successful.", <<>>)>>, <<>>)
         ELSE /\ committed' = None
              /\ Exit(<<Fmt("Commit aborted because the message is empty.", <<>>)>>, <<>>)
    /\ UNCHANGED <<other, file, cli, config, staged, params, diff, requests, status, body,
                   result>>

\* A slip that posts again after a failure.
ReportError_Retries ==
    /\ pc = "returned"
    /\ ~result[1].ok
    /\ pc' = "diffed"
    /\ stderr' = Append(stderr, Fmt("Error generating commit message:\n{}", <<result[1].val>>))
    /\ UNCHANGED <<other, file, cli, config, staged, params, diff, requests, status, body,
                   result, stdout, committed, exitCode>>

\* The Err arm.
ReportError ==
    /\ pc = "returned"
    /\ ~result[1].ok
    /\ Exit(<<>>, <<Fmt("Error generating commit message:\n{}", <<result[1].val>>)>>)
    /\ UNCHANGED <<other, file, cli, config, staged, params, diff, requests, status, body,
                   result, committed>>

\* -------------------------------------------------------------------- Next

Next ==
    \/ \E c \in GenerateClis, d \in Diffs : Main(c, d)
    \/ \E c \in SetCmds \cup {ShowCmd} : Main(ConfigCli(c), "")
    \/ ConfigSet
    \/ ConfigShow
    \/ MissingApiKey
    \/ ResolveOptions
    \/ GetGitDiff
    \/ NoStagedChanges
    \/ SendRequest
    \/ \E e \in SendErrors : SendFails(e)
    \/ \E s \in Statuses : ResponseArrives(s)
    \/ \E e \in ReadErrors : ReadBodyFails(e)
    \/ ReadBody(NotJson)
    \/ ReadBody(ErrorBody)
    \/ ReadBody(NoMessageBody)
    \/ \E cs \in SeqsUpTo(Contents, MaxChoices) : ReadBody(ChatBody(cs))
    \/ PrintMessage
    \/ EditAndCommit
    \/ ReportError

Spec == Init /\ [][Next]_vars

\* ------------------------------------------- a concurrent `config set-*`

\* A second ai_commit process, started while the first may be running; it
\* runs `config set-*` commands.  Each process loads the whole file and
\* later writes the whole file, with no lock between the two (config.rs).
\* main.rs loads twice (main, then handle_config_command); the load step
\* here is the last load before the save.

\* main of the other process: Cli::parse() and load_config().
OtherMain(c) ==
    /\ other.pc \in {"idle", "done"}
    /\ other' = [pc |-> "config", config |-> load_config(file), command |-> c]
    /\ UNCHANGED <<file, pc, cli, config, staged, params, diff, requests, status, body,
                   result, stdout, stderr, committed, exitCode>>

\* What a locked read-modify-write would do, and the code does not: the
\* save re-reads the file and replaces the one field in what it finds.
OtherSet_Merges ==
    /\ other.pc = "config"
    /\ LET c == SetField(load_config(file), other.command.field, other.command.value)
       IN  /\ file' = save_config(c)
           /\ other' = [other EXCEPT !.pc = "done", !.config = c]
    /\ UNCHANGED <<pc, cli, config, staged, params, diff, requests, status, body,
                   result, stdout, stderr, committed, exitCode>>

\* The Set* arms in the other process: assign the field in the record it
\* loaded, save the whole record.
OtherSet ==
    /\ other.pc = "config"
    /\ LET c == SetField(other.config, other.command.field, other.command.value)
       IN  /\ file' = save_config(c)
           /\ other' = [other EXCEPT !.pc = "done", !.config = c]
    /\ UNCHANGED <<pc, cli, config, staged, params, diff, requests, status, body,
                   result, stdout, stderr, committed, exitCode>>

\* Two processes running `config set-*` commands, their steps interleaved.
NextConc ==
    \/ \E c \in SetCmds : Main(ConfigCli(c), "")
    \/ ConfigSet
    \/ \E c \in SetCmds : OtherMain(c)
    \/ OtherSet

SpecConc == Init /\ [][NextConc]_vars

\* ------------------------------------------------------------------ claims

\* The record the config file holds (what a load would give).
Persisted == load_config(file)

\* A generation is under way or over, and past the test of the API key.
PastKeyCheck == cli.command = None /\ pc \notin {"idle", "generate"}

MissingApiKeyReported == stderr = <<ApiKeyNotSet>>

NoStagedChangesReported == stdout = <<NoStagedChangesLine>>

OverrideFields == {"language", "prompt", "url", "model"}

BuiltinDefault ==
    [url |-> "https://api.openai.com/v1/chat/completions", model |-> "gpt-3.5-turbo",
     language |-> "en", prompt |-> ""]

\* The value precedence gives field f: CLI, else stored, else default.
Expected(f) ==
    IF cli[f] # None THEN cli[f][1]
    ELSE IF Persisted[f] # None THEN Persisted[f][1]
    ELSE BuiltinDefault[f]

\* C1: once run_generate has resolved its options, each of language, prompt,
\* url and model is the CLI value when one was given, else the stored value
\* when there is one, else the built-in default; it is a string, never
\* unset; and the request that is posted carries exactly these values.
C1_Precedence ==
    params # None =>
        /\ \A f \in OverrideFields : params[1][f] \in STRING /\ params[1][f] = Expected(f)
        /\ \A i \in 1..Len(requests) :
            /\ requests[i].url = Expected("url")
            /\ requests[i].json.model = Expected("model")
            /\ requests[i].json.messages[1].content.args = <<Expected("language"), Expected("prompt")>>

\* A request is out whose language came from the CLI over a stored one, whose
\* prompt came from the store, whose url is the default and whose model came
\* from the CLI with nothing stored.
C1_Witness ==
    /\ pc = "sent"
    /\ cli.language # None /\ Persisted.language # None
    /\ cli.prompt = None /\ Persisted.prompt # None
    /\ cli.url = None /\ Persisted.url = None
    /\ cli.model # None /\ Persisted.model = None
    /\ requests[1].url = "https://api.openai.com/v1/chat/completions"
    /\ requests[1].json.model = "cli-model"
    /\ requests[1].json.messages[1].content.args = <<"fr", "Use conventional commits.">>

\* C2: a generation reports the missing API key exactly when no api_key is
\* stored (the command line has no api_key override, so absent from both is
\* absent from the store); it then ends without having posted anything;
\* otherwise the key run_generate uses is the stored one.
C2_MissingApiKey ==
    PastKeyCheck =>
        /\ MissingApiKeyReported <=> Persisted.api_key = None
        /\ MissingApiKeyReported => pc = "done" /\ requests = <<>> /\ params = None
        /\ ~MissingApiKeyReported => params # None /\ params[1].api_key = Persisted.api_key[1]

\* A generation with overrides on the command line and other fields stored
\* has stopped on the missing key.
C2_Witness ==
    /\ PastKeyCheck
    /\ Persisted.api_key = None
    /\ Persisted.url # None
    /\ cli.url # None /\ cli.model # None
    /\ staged # ""
    /\ MissingApiKeyReported
    /\ pc = "done"
    /\ requests = <<>>

\* C3 as stated: a generation that ends with an empty staged diff has
\* reported "no staged changes" and posted nothing, whatever is stored.
C3_Original ==
    (cli.command = None /\ pc = "done" /\ staged = "") =>
        NoStagedChangesReported /\ requests = <<>>

\* C3 amended: with an empty staged diff a generation never posts anything;
\* it ends reporting "no staged changes" when an API key is stored, and
\* reporting the missing API key, without looking at the diff, when none is.
C3_EmptyDiff ==
    (cli.command = None /\ staged = "") =>
        /\ requests = <<>>
        /\ pc = "done" =>
            IF Persisted.api_key # None
            THEN NoStagedChangesReported /\ stderr = <<>> /\ diff = Some("")
            ELSE MissingApiKeyReported /\ stdout = <<>> /\ diff = None

\* A generation with a key stored has ended on the empty diff.
C3_Witness ==
    /\ cli.command = None
    /\ pc = "done"
    /\ staged = ""
    /\ Persisted.api_key = Some("sk-A")
    /\ diff = Some("")
    /\ NoStagedChangesReported
    /\ requests = <<>>

\* C4 as stated: every request that is posted carries a non-empty bearer
\* token.
C4_NonEmptyBearer ==
    \A i \in 1..Len(requests) : requests[i].bearer # ""

\* The body is a ChatResponse: an object whose `choices` is an array of
\* choices.
IsChatResponse(b) ==
    /\ b.t = "object"
    /\ "choices" \in DOMAIN b.v
    /\ b.v.choices.t = "array"
    /\ \A i \in 1..Len(b.v.choices.v) : IsChoice(b.v.choices.v[i])

\* The content of choice i as the body holds it.
ContentOf(b, i) == b.v.choices.v[i].v.message.v.content.v

\* C5: on a 2xx status and a body that is a ChatResponse with at least one
\* choice, generate_commit_message returns Ok of the first choice's content
\* as the body holds it, whatever the later choices are.
C5_FirstChoice ==
    (body # None /\ is_success(status[1]) /\ IsChatResponse(body[1])
        /\ Len(body[1].v.choices.v) >= 1) =>
            /\ result # None
            /\ result[1].ok
            /\ result[1].val = ContentOf(body[1], 1)

\* A 2xx answer with two different choices, the first with surrounding
\* white space and fences, was returned as it came.
C5_Witness ==
    /\ body # None
    /\ is_success(status[1])
    /\ IsChatResponse(body[1])
    /\ Len(body[1].v.choices.v) = 2
    /\ ContentOf(body[1], 1) = " '''feat: add x'''\n"
    /\ ContentOf(body[1], 2) = "fix: correct off-by-one"
    /\ result[1].ok
    /\ result[1].val = " '''feat: add x'''\n"

\* The error texts of generate_commit_message, by the spec's names.
Transport == "Failed to send request: {}"
BodyRead == "Failed to read response body: {}"
BadStatus == "API request failed with status {}. \nResponse: {}"
ParseFailure == "Failed to parse JSON response: {}. \nRaw response: {}"
EmptyChoices == "API response is empty."

\* generate_commit_message returned the error with this text.
Failed(kind) == result # None /\ ~result[1].ok /\ result[1].val.fmt = kind

\* What the exchange was: send() failed when no status was ever held, and
\* text() failed when a status was held and no body.
SendFailed == status = None
ReadFailed == status # None /\ body = None

\* C6 as stated: send failure gives Transport; otherwise a non-2xx status
\* gives BadStatus with the status code and the raw body; otherwise an
\* unparseable body gives ParseFailure with the parser error and the raw
\* body; otherwise an empty choices list gives EmptyChoices; and only an
\* exchange that failed in none of these ways gives a success value.
C6_Original ==
    result # None =>
        IF SendFailed THEN Failed(Transport) /\ result[1].val.args[1] \in SendErrors
        ELSE IF ~is_success(status[1])
        THEN /\ Failed(BadStatus)
             /\ body # None
             /\ result[1].val.args[1] = status[1]
             /\ result[1].val.args[2] = body[1]
        ELSE IF body = None THEN ~result[1].ok
        ELSE IF ~IsChatResponse(body[1])
        THEN /\ Failed(ParseFailure)
             /\ result[1].val.args[1] \in STRING
             /\ result[1].val.args[2] = body[1]
        ELSE IF Len(body[1].v.choices.v) = 0 THEN Failed(EmptyChoices)
        ELSE result[1].ok

\* C6 amended: the order has one more step.  Send failure gives Transport;
\* otherwise a failure to read the body gives the "Failed to read response
\* body" error whatever the status; otherwise a non-2xx status gives
\* BadStatus with the status code and the raw body, the body not parsed;
\* otherwise an unparseable body gives ParseFailure with the parser error and
\* the raw body; otherwise an empty choices list gives EmptyChoices; and only
\* an exchange that failed in none of these ways gives a success value.
C6_Classification ==
    result # None =>
        IF SendFailed THEN Failed(Transport) /\ result[1].val.args[1] \in SendErrors
        ELSE IF ReadFailed THEN Failed(BodyRead) /\ result[1].val.args[1] \in ReadErrors
        ELSE IF ~is_success(status[1])
        THEN /\ Failed(BadStatus)
             /\ result[1].val.args[1] = status[1]
             /\ result[1].val.args[2] = body[1]
        ELSE IF ~IsChatResponse(body[1])
        THEN /\ Failed(ParseFailure)
             /\ result[1].val.args[1] \in STRING
             /\ result[1].val.args[2] = body[1]
        ELSE IF Len(body[1].v.choices.v) = 0 THEN Failed(EmptyChoices)
        ELSE result[1].ok

\* A 401 whose body would parse as a ChatResponse with a choice came back as
\* BadStatus carrying 401 and that body.
C6_Witness ==
    /\ result # None
    /\ status = Some(401)
    /\ body # None
    /\ IsChatResponse(body[1])
    /\ Len(body[1].v.choices.v) = 1
    /\ Failed(BadStatus)
    /\ result[1].val.args[1] = 401

\* C7 as stated: a generation that ended on an error of
\* generate_commit_message printed it to the error stream and exited
\* nonzero; one that ended on a message or on "no staged changes" exited
\* zero.
C7_ExitStatus ==
    (cli.command = None /\ pc = "done") =>
        /\ (result # None /\ ~result[1].ok) =>
            /\ stderr = <<Fmt("Error generating commit message:\n{}", <<result[1].val>>)>>
            /\ exitCode # Some(0)
        /\ ((result # None /\ result[1].ok) \/ NoStagedChangesReported) =>
            exitCode = Some(0)

\* `config show` has run.
Shown == cli.command # None /\ cli.command[1].cmd = "show" /\ pc = "done"

\* C8: what `config show` printed holds no stored api_key value among its
\* arguments, says "[set]" or "[not set]" by the key's presence alone, and
\* is what it would have printed had any other key value been stored.
C8_ShowHidesKey ==
    Shown =>
        /\ \A i \in 1..Len(stdout) : \A j \in 1..Len(stdout[i].args) :
            stdout[i].args[j] \notin StoredValues.api_key
        /\ stdout[3].fmt = IF Persisted.api_key # None THEN "api_key = [set]"
                                                       ELSE "api_key = [not set]"
        /\ Persisted.api_key # None =>
            \A k \in StoredValues.api_key :
                stdout = ShowLines([Persisted EXCEPT !.api_key = Some(k)])

\* `config show` has printed a config with a key and a url stored.
C8_Witness ==
    /\ Shown
    /\ Persisted.api_key = Some("sk-A")
    /\ Persisted.url # None
    /\ Len(stdout) = 5
    /\ stdout[3].fmt = "api_key = [set]"

\* The step is a `config set-*` command doing its work.
SetStep == pc = "config" /\ cli.command # None /\ cli.command[1].cmd = "set" /\ pc' = "done"

\* C9: a step changes the persisted record only if it is a set command's,
\* and that step leaves persisted the record persisted before with the one
\* field replaced by the value given; `config show` and generation steps
\* leave the file as it is.
C9_SetPersists ==
    [][IF SetStep
       THEN Persisted' = [f \in Fields |->
                IF f = cli.command[1].field THEN Some(cli.command[1].value)
                ELSE Persisted[f]]
       ELSE file' = file]_vars

\* `config set-url` has run on a stored key and language: the file holds the
\* three, and nothing else.
C9_Witness ==
    /\ pc = "done"
    /\ cli.command # None
    /\ cli.command[1].cmd = "set"
    /\ cli.command[1].field = "url"
    /\ Persisted.api_key = Some("sk-B")
    /\ Persisted.language = Some("zh")
    /\ Persisted.url = Some("http://stored.example/v1")
    /\ Persisted.model = None
    /\ Persisted.prompt = None

\* C10: an invocation posts at most once; while the exchange is under way
\* and once generate_commit_message has returned, nothing more is posted, and
\* the step after the return ends the invocation, on an error as on a
\* message.
C10_SinglePost ==
    /\ [](Len(requests) <= 1)
    /\ [][/\ pc \in {"sent", "reading"} => requests' = requests /\ pc' \in {"reading", "returned"}
          /\ pc = "returned" => requests' = requests /\ pc' = "done"]_vars

\* An invocation has ended on a failed exchange, having posted once.
C10_Witness ==
    /\ pc = "done"
    /\ Len(requests) = 1
    /\ result # None
    /\ ~result[1].ok
    /\ stderr # <<>>

\* The record a set command saves: the loaded record c with the command's
\* field replaced.
Written(c, cmd) == [g \in Fields |-> IF g = cmd.field THEN Some(cmd.value) ELSE c[g]]

\* Both processes have run a set command to its end, on different fields.
BothSet ==
    /\ pc = "done" /\ cli.command # None /\ cli.command[1].cmd = "set"
    /\ other.pc = "done"
    /\ cli.command[1].field # other.command.field

\* Each process's record lacks the other's update: neither loaded after the
\* other had saved.
Raced ==
    /\ config[other.command.field] # Some(other.command.value)
    /\ other.config[cli.command[1].field] # Some(cli.command[1].value)

\* C11: a set command's save leaves persisted exactly the record that
\* process loaded with its one field replaced, whatever the file held by
\* then; so when two set commands on different fields have both loaded before
\* either saved, the persisted record in the end is the later writer's
\* record, and the earlier writer's field is back at the value it had before.
C11_LastWriterWins ==
    /\ [][/\ (pc = "config" /\ pc' = "done") => Persisted' = Written(config, cli.command[1])
          /\ (other.pc = "config" /\ other'.pc = "done") =>
                Persisted' = Written(other.config, other.command)]_vars
    /\ [](BothSet /\ Raced =>
            \/ /\ Persisted = other.config
               /\ Persisted[cli.command[1].field] # Some(cli.command[1].value)
               /\ Persisted[other.command.field] = Some(other.command.value)
            \/ /\ Persisted = config
               /\ Persisted[other.command.field] # Some(other.command.value)
               /\ Persisted[cli.command[1].field] = Some(cli.command[1].value))

\* `config set-url` and `config set-model` raced on a file holding only a
\* key; set-model saved last, and the url is gone from the file.
C11_Witness ==
    /\ BothSet
    /\ Raced
    /\ cli.command[1].field = "url"
    /\ other.command.field = "model"
    /\ config.url = Some("http://stored.example/v1")
    /\ Persisted = other.config
    /\ Persisted.api_key = Some("sk-A")
    /\ Persisted.model = Some("stored-model")
    /\ Persisted.url = None

====
